---- MODULE Spec2Model ----
(***************************************************************************)
(* State-machine model of the service core of quantteamab/sqllineage:      *)
(*   - RateLimiterMiddleware (app/middleware/rate_limiter.py)              *)
(*   - OpenMetadataProvider  (app/services/openmetadata_provider.py)       *)
(*   - LineageService        (app/services/lineage_service.py)             *)
(* Strings that the code takes apart (the X-Forwarded-For header, client   *)
(* addresses) are sequences of one-character strings; strings that the     *)
(* code only concatenates or compares are TLA+ strings.                    *)
(***************************************************************************)
EXTENDS Integers, Sequences, FiniteSets, TLC

\* ---------------------------------------------------------------- bounds
\* Largest requests_per_minute the middleware is constructed with.
MaxLimit == 2
\* Number of requests dispatched in one behaviour.
MaxRequests == 3
\* Number of events around the program in one behaviour: advances of the
\* clock and changes of the catalog's answers.
MaxTicks == 2
\* Number of _get_table_columns calls in one behaviour.
MaxLookups == 2
\* Largest number of paths runner.get_column_lineage() returns.
MaxPaths == 2
\* Number of get_* calls on one LineageService in one behaviour.
MaxCalls == 2
\* Largest number of tables in runner.source_tables or runner.target_tables.
MaxTables == 2

\* ------------------------------------------------------ program constants
\* self.window_size = 60
window_size == 60
\* cache_ttl: int = 300
cache_ttl == 300

VARIABLES
    requests_per_minute,  \* RateLimiterMiddleware.requests_per_minute
    request_timestamps,   \* RateLimiterMiddleware.request_timestamps: ip -> deque
    reqs,                 \* every request dispatched so far, with its outcome
    now,                  \* the value time.time() returns
    ticks,                \* number of clock advances so far
    constructed,          \* OpenMetadataProvider.__init__ has run
    _connected,           \* OpenMetadataProvider._connected
    _cache,               \* OpenMetadataProvider._cache: key -> (columns, timestamp)
    probe,                \* what GET /system/status answered to __init__
    raised,               \* an exception left the resolver to its caller
    catalog,              \* what GET /tables/name/{fqn} answers at present
    changes,              \* number of changes of the catalog so far
    lookups,              \* every _get_table_columns call so far
    paths,                \* what runner.get_column_lineage() returns
    pairs_call,           \* the call of _extract_column_pairs, its outcome
    paths_call,           \* the call of _extract_column_lineage_paths
    sql,                  \* LineageService.sql
    tables,               \* runner.source_tables and runner.target_tables
    service,              \* the other fields of the LineageService
    calls,                \* every get_* call so far, with its response
    metadata_provider,    \* LineageService.metadata_provider
    arrivals              \* the requests handed to dispatch, as they came

limiterVars == <<requests_per_minute, request_timestamps, reqs, arrivals>>
clockVars == <<now, ticks>>
serviceVars == <<sql, tables, service, calls, metadata_provider>>
projectorVars == <<paths, pairs_call, paths_call, serviceVars>>
resolverVars ==
    <<constructed, _connected, _cache, probe, raised, catalog, changes, lookups>>
vars == <<requests_per_minute, request_timestamps, reqs, now, ticks,
          constructed, _connected, _cache, probe, raised, catalog, changes,
          lookups, paths, pairs_call, paths_call, sql, tables, service, calls,
          metadata_provider, arrivals>>

\* ------------------------------------------------------------- requests
\* A header or attribute that may be missing (None in the code).
Absent == [present |-> FALSE, value |-> <<>>]
Given(s) == [present |-> TRUE, value |-> s]

HealthPath == "/health"
Paths == {HealthPath, "/api/v1/lineage/table"}

\* The (X-Forwarded-For, request.client) pairs requests arrive with.
Origins ==
    { [forwarded |-> Absent, client |-> Given(<<"a">>)],
      [forwarded |-> Given(<<" ", "a", ",", "b">>), client |-> Given(<<"b">>)],
      [forwarded |-> Absent, client |-> Given(<<"b">>)] }

Requests == { [path |-> p, forwarded |-> o.forwarded, client |-> o.client] :
                p \in Paths, o \in Origins }

\* Amounts by which time.time() advances between two steps.
ClockSteps == {1, window_size}

\* ------------------------------------------------------- _get_client_ip
Whitespace == {" ", "\t"}

\* s.split(",")[0]
RECURSIVE SplitFirst(_)
SplitFirst(s) ==
    IF s = <<>> \/ Head(s) = "," THEN <<>>
    ELSE <<Head(s)>> \o SplitFirst(Tail(s))

RECURSIVE LStrip(_)
LStrip(s) ==
    IF s # <<>> /\ Head(s) \in Whitespace THEN LStrip(Tail(s)) ELSE s

RECURSIVE RStrip(_)
RStrip(s) ==
    IF s # <<>> /\ s[Len(s)] \in Whitespace
    THEN RStrip(SubSeq(s, 1, Len(s) - 1)) ELSE s

\* s.strip()
Strip(s) == RStrip(LStrip(s))

Unknown == <<"u", "n", "k", "n", "o", "w", "n">>

\* Variant of _get_client_ip that prefers the peer address to the header.
_get_client_ip_peer_first(request) ==
    IF request.client.present THEN request.client.value
    ELSE IF request.forwarded.present /\ request.forwarded.value # <<>>
    THEN Strip(SplitFirst(request.forwarded.value))
    ELSE Unknown

_get_client_ip(request) ==
    IF request.forwarded.present /\ request.forwarded.value # <<>>
    THEN Strip(SplitFirst(request.forwarded.value))
    ELSE IF request.client.present THEN request.client.value ELSE Unknown

\* ------------------------------------------------ the timestamp records
\* defaultdict(deque).__getitem__: reading a missing key inserts an empty deque.
Touch(m, k) == IF k \in DOMAIN m THEN m ELSE m @@ (k :> <<>>)

\* del m[k]
Delete(m, k) == [j \in DOMAIN m \ {k} |-> m[j]]

\* The retained sequence of an identity, empty when it has no record.
TimestampsOf(m, k) == IF k \in DOMAIN m THEN m[k] ELSE <<>>

\* Variant of PopOld that also drops a timestamp exactly window_size old.
RECURSIVE PopOldInclusive(_, _)
PopOldInclusive(timestamps, cutoff_time) ==
    IF timestamps # <<>> /\ Head(timestamps) <= cutoff_time
    THEN PopOldInclusive(Tail(timestamps), cutoff_time)
    ELSE timestamps

\* while timestamps and timestamps[0] < cutoff_time: timestamps.popleft()
RECURSIVE PopOld(_, _)
PopOld(timestamps, cutoff_time) ==
    IF timestamps # <<>> /\ Head(timestamps) < cutoff_time
    THEN PopOld(Tail(timestamps), cutoff_time)
    ELSE timestamps

\* The number of times the body of the while loop runs.
RECURSIVE PopCount(_, _)
PopCount(timestamps, cutoff_time) ==
    IF timestamps # <<>> /\ Head(timestamps) < cutoff_time
    THEN 1 + PopCount(Tail(timestamps), cutoff_time)
    ELSE 0

_clean_old_timestamps(m, client_ip, current_time) ==
    LET cutoff_time == current_time - window_size
        touched == Touch(m, client_ip)
        timestamps == PopOld(touched[client_ip], cutoff_time)
    IN  IF timestamps = <<>>
        THEN Delete(touched, client_ip)
        ELSE [touched EXCEPT ![client_ip] = timestamps]

\* Variant of IsExempt that compares with another path.
IsExemptOtherPath(path) == path = "/healthz"

\* if request.url.path == "/health"
IsExempt(path) == path = HealthPath

\* Variant of LimitExceeded that is off by one.
LimitExceededOffByOne(count, limit) == count > limit

\* if len(self.request_timestamps[client_ip]) >= self.requests_per_minute
LimitExceeded(count, limit) == count >= limit

\* ------------------------------------------------------------- dispatch
NoHeaders == [present |-> FALSE, limit |-> 0, remaining |-> 0, reset |-> 0]

\* Variant of Admit in which a denied request is recorded too.
AdmitCounting(m, client_ip, current_time, limit) ==
    LET cleaned == _clean_old_timestamps(m, client_ip, current_time)
        checked == Touch(cleaned, client_ip)
    IN  [permitted |-> ~LimitExceeded(Len(checked[client_ip]), limit),
         timestamps |-> [checked EXCEPT ![client_ip] = Append(@, current_time)]]

\* Variant of Admit that counts the pruned sequence but appends to the
\* sequence as it was before the prune.
AdmitUnpruned(m, client_ip, current_time, limit) ==
    LET cleaned == _clean_old_timestamps(m, client_ip, current_time)
        checked == Touch(cleaned, client_ip)
    IN  IF LimitExceeded(Len(checked[client_ip]), limit)
        THEN [permitted |-> FALSE, timestamps |-> checked]
        ELSE [permitted |-> TRUE,
              timestamps |-> [Touch(m, client_ip) EXCEPT
                                ![client_ip] = Append(@, current_time)]]

\* Lines 43-62 of dispatch: prune, count, raise or append.  No await lies
\* between them, so the event loop runs them as one step.
Admit(m, client_ip, current_time, limit) ==
    LET cleaned == _clean_old_timestamps(m, client_ip, current_time)
        checked == Touch(cleaned, client_ip)
    IN  IF LimitExceeded(Len(checked[client_ip]), limit)
        THEN [permitted |-> FALSE, timestamps |-> checked]
        ELSE [permitted |-> TRUE,
              timestamps |-> [checked EXCEPT ![client_ip] = Append(@, current_time)]]

\* raise HTTPException(status_code=429, detail={...}) of dispatch.
RateLimitExceeded(limit) ==
    [type |-> "HTTPException", status_code |-> 429,
     detail |-> [error |-> "Rate limit exceeded", limit |-> limit,
                 window |-> "1 minute",
                 message |-> <<"Too many requests. Maximum ", limit,
                               " requests per minute allowed.">>]]

\* http_exception_handler of main.py: the exception's status, its detail
\* under "detail".  unhandled: the exception also reached the server.
http_exception_handler(exc) ==
    [status |-> exc.status_code, body |-> [detail |-> exc.detail],
     unhandled |-> FALSE]

\* general_exception_handler of main.py, registered for Exception: the
\* framework calls it from its outermost layer, sends its response and
\* raises the exception again to the server.
general_exception_handler(exc) ==
    [status |-> 500, body |-> [detail |-> "Internal server error"],
     unhandled |-> TRUE]

\* The layers a request passes in main.py, outermost first.  The framework
\* puts the handler for Exception outermost, then the middlewares in the
\* reverse of the order main.py adds them, then the handlers for the other
\* exception classes, then the routes.
Layers ==
    <<"general_exception_handler", "add_process_time_header",
      "validate_request_size", "RateLimiterMiddleware",
      "http_exception_handler", "router">>

LayerOf(name) == CHOOSE k \in 1..Len(Layers) : Layers[k] = name

\* What a layer does with an exception that comes out of the layer below:
\* the two functions of main.py await call_next outside any try.
Catches(layer, exc) ==
    CASE layer = "general_exception_handler" -> TRUE
      [] layer = "http_exception_handler" -> exc.type = "HTTPException"
      [] OTHER -> FALSE

\* An exception raised in layer k travels outwards to the first layer that
\* catches it; that layer's handler makes the response.
RECURSIVE Propagate(_, _)
Propagate(exc, k) ==
    IF k = 0 THEN general_exception_handler(exc)
    ELSE IF Catches(Layers[k], exc)
         THEN IF Layers[k] = "http_exception_handler"
              THEN http_exception_handler(exc)
              ELSE general_exception_handler(exc)
         ELSE Propagate(exc, k - 1)

NoResponse == [status |-> 0, body |-> <<>>, unhandled |-> FALSE]
\* The response of the layers below the middleware.
Downstream == [status |-> 200, body |-> <<>>, unhandled |-> FALSE]

\* One entry of reqs.  state: "downstream" while call_next is awaited,
\* "denied" after the HTTPException(429) was raised, "done" once dispatch
\* has returned the response.  called: whether call_next was invoked.
\* before/after: the identity's retained sequence when dispatch was entered
\* and when it reached its await or raise.  response: what the client gets.
Entry(request, ip, time, state, called, before, after) ==
    [path |-> request.path, client_ip |-> ip, current_time |-> time,
     state |-> state, called |-> called,
     had_record |-> ip \in DOMAIN before,
     before |-> TimestampsOf(before, ip), after |-> TimestampsOf(after, ip),
     headers |-> NoHeaders,
     response |-> IF state = "denied"
                  THEN Propagate(RateLimitExceeded(requests_per_minute),
                                 LayerOf("RateLimiterMiddleware") - 1)
                  ELSE NoResponse]

\* dispatch, from its entry to its first await (or to the raise).
DispatchBegin(request) ==
    /\ Len(reqs) < MaxRequests
    /\ IF IsExempt(request.path)
       THEN /\ reqs' = Append(reqs, Entry(request, <<>>, now, "downstream", TRUE,
                                          request_timestamps, request_timestamps))
            /\ UNCHANGED request_timestamps
       ELSE LET client_ip == _get_client_ip(request)
                current_time == now
                decision == Admit(request_timestamps, client_ip, current_time,
                                  requests_per_minute)
            IN  /\ request_timestamps' = decision.timestamps
                /\ reqs' = Append(reqs,
                        Entry(request, client_ip, current_time,
                              IF decision.permitted THEN "downstream" ELSE "denied",
                              decision.permitted,
                              request_timestamps, decision.timestamps))
    /\ UNCHANGED <<projectorVars, requests_per_minute, clockVars, resolverVars>>

\* dispatch on a request of which the headers are kept for later reading.
DispatchLogged(request) ==
    /\ DispatchBegin(request)
    /\ arrivals' = Append(arrivals, request)

\* The rate-limit headers dispatch puts on the response of call_next.
RateLimitHeaders(m, e) ==
    [present |-> TRUE,
     limit |-> requests_per_minute,
     remaining |-> requests_per_minute - Len(Touch(m, e.client_ip)[e.client_ip]),
     reset |-> e.current_time + window_size]

\* dispatch, from the return of call_next to its own return.
DispatchEnd(i) ==
    /\ i \in 1..Len(reqs)
    /\ reqs[i].state = "downstream"
    /\ IF IsExempt(reqs[i].path)
       THEN /\ reqs' = [reqs EXCEPT ![i].state = "done",
                                    ![i].response = Downstream]
            /\ UNCHANGED request_timestamps
       ELSE /\ reqs' = [reqs EXCEPT ![i].state = "done",
                                    ![i].response = Downstream,
                                    ![i].headers =
                                        RateLimitHeaders(request_timestamps, reqs[i])]
            /\ request_timestamps' = Touch(request_timestamps, reqs[i].client_ip)
    /\ UNCHANGED <<projectorVars, requests_per_minute, clockVars, resolverVars,
                   arrivals>>

\* time.time() moves on.
Tick(d) ==
    /\ ticks + changes < MaxTicks
    /\ now' = now + d
    /\ ticks' = ticks + 1
    /\ UNCHANGED <<projectorVars, limiterVars, resolverVars>>

Dispatch ==
    \E request \in Requests : DispatchBegin(request) /\ UNCHANGED arrivals
Respond == \E i \in 1..MaxRequests : DispatchEnd(i)
Advance == \E d \in ClockSteps : Tick(d)

\* ------------------------------------------- the OpenMetadata service
\* What requests.get comes back with: a response, or an exception
\* (connection error, timeout).
Ok(columns) == [kind |-> "response", status |-> 200, columns |-> columns]
NotFound == [kind |-> "response", status |-> 404, columns |-> <<>>]
ServerError == [kind |-> "response", status |-> 500, columns |-> <<>>]
Raises == [kind |-> "exception", status |-> 0, columns |-> <<>>]
\* A 200 response whose body is not the JSON object the code reads:
\* response.json(), data.get or col["name"] raises on it.
Malformed == [kind |-> "malformed", status |-> 200, columns |-> <<>>]

TableResponses ==
    {Ok(<<"id">>), Ok(<<"id", "name">>), Ok(<<>>), NotFound, ServerError, Raises,
     Malformed}
StatusResponses == {Ok(<<>>), ServerError, Raises}

\* The (schema, table) pairs the parser asks for.
Locators == {[schema |-> "s", table |-> "t"]}

\* Variant of fqn_patterns with the three patterns of the comment above it.
fqn_patterns_with_database(schema, table) ==
    <<"db." \o schema \o "." \o table, schema \o "." \o table, table>>

\* Variant of fqn_patterns that tries the bare table name first.
fqn_patterns_bare_first(schema, table) == <<table, schema \o "." \o table>>

\* fqn_patterns = [f"{schema}.{table}", table]
fqn_patterns(schema, table) == <<schema \o "." \o table, table>>

FQNs == UNION {{fqn_patterns(l.schema, l.table)[c] : c \in 1..2} : l \in Locators}

Catalogs == [FQNs -> TableResponses]

\* requests.get(f"{self.base_url}/tables/name/{fqn}", ...)
GetTable(fqn) ==
    IF fqn \in DOMAIN catalog THEN catalog[fqn] ELSE NotFound

\* ------------------------------------------------ OpenMetadataProvider
\* Variant of ProbeSucceeds without raise_for_status.
ProbeSucceedsAnyStatus(r) == r.kind = "response"

\* _test_connection: requests.get did not raise and raise_for_status passes.
ProbeSucceeds(r) == r.kind = "response" /\ r.status < 400

\* Variant of _test_connection without its try ... except.
_test_connection_unguarded(r) ==
    [connected |-> ProbeSucceeds(r), raises |-> ~ProbeSucceeds(r)]

\* _test_connection: the try sets _connected, the except Exception clears it.
_test_connection(r) == [connected |-> ProbeSucceeds(r), raises |-> FALSE]

\* __init__, with the _test_connection call that ends it; r is what
\* GET /system/status comes back with.
Construct(r) ==
    /\ ~constructed
    /\ constructed' = TRUE
    /\ _cache' = <<>>
    /\ probe' = r
    /\ _connected' = _test_connection(r).connected
    /\ raised' = (raised \/ _test_connection(r).raises)
    /\ UNCHANGED <<projectorVars, limiterVars, clockVars, catalog, changes, lookups>>

\* cache_key = f"{schema}.{table}"
cache_key(schema, table) == schema \o "." \o table

NoEntry == [present |-> FALSE, columns |-> <<>>, timestamp |-> 0]
EntryOf(cache, key) ==
    IF key \in DOMAIN cache
    THEN [present |-> TRUE, columns |-> cache[key].columns,
          timestamp |-> cache[key].timestamp]
    ELSE NoEntry

\* Variant of CacheValid with the comparison turned around.
CacheValidInverted(timestamp, t) == t - timestamp > cache_ttl

\* Variant of CacheValid in which an entry exactly cache_ttl old is valid.
CacheValidInclusive(timestamp, t) == t - timestamp <= cache_ttl

\* if time.time() - timestamp < self.cache_ttl
CacheValid(timestamp, t) == t - timestamp < cache_ttl

\* Variant of Store that keeps the entry a key already has.
StoreIfAbsent(cache, key, columns, t) ==
    IF key \in DOMAIN cache THEN cache
    ELSE cache @@ (key :> [columns |-> columns, timestamp |-> t])

\* self._cache[cache_key] = (columns, time.time())
Store(cache, key, columns, t) ==
    IF key \in DOMAIN cache
    THEN [cache EXCEPT ![key] = [columns |-> columns, timestamp |-> t]]
    ELSE cache @@ (key :> [columns |-> columns, timestamp |-> t])

\* if response.status_code == 200: ... if columns: return columns
Usable(r) == r.kind = "response" /\ r.status = 200 /\ r.columns # <<>>

\* The body of the try of one candidate: requests.get and the reading of
\* its answer.  columns: what it returns, <<>> when it falls through.
ReadAnswer(r) ==
    [raises |-> r.kind \in {"exception", "malformed"},
     columns |-> IF Usable(r) THEN r.columns ELSE <<>>]

\* Variant of TryCandidate without the except clause: the exception of a
\* candidate leaves _fetch_table_columns.
TryCandidateUncaught(r) == ReadAnswer(r)

\* One candidate of _fetch_table_columns: the try with its except Exception,
\* which logs and goes on to the next candidate.
TryCandidate(r) ==
    [raises |-> FALSE,
     columns |-> IF ReadAnswer(r).raises THEN <<>> ELSE ReadAnswer(r).columns]

\* One entry of lookups.  state: "fetching" while _fetch_table_columns is
\* in requests.get, "done" once _get_table_columns has returned.
\* cache_read: the call looked its key up in _cache; hit: it returned the
\* cached columns; fetched: it called _fetch_table_columns; got: the answers
\* of its requests.get calls; wrote: it assigned its key in _cache;
\* entry_before, entry_after: the entry of its key when the call began and
\* when it returned.
Lookup(l, state, cache_read, hit, fetched, result, entry_before) ==
    [schema |-> l.schema, table |-> l.table, started |-> now, finished |-> now,
     state |-> state, candidate |-> 1, cache_read |-> cache_read, hit |-> hit,
     fetched |-> fetched, got |-> <<>>, wrote |-> FALSE, result |-> result,
     entry_before |-> entry_before, entry_after |-> entry_before]

Idle == \A i \in 1..Len(lookups) : lookups[i].state = "done"

\* _get_table_columns, from its entry to its return or to the first
\* requests.get of _fetch_table_columns.
LookupEnter(l) ==
    /\ constructed
    /\ Len(lookups) < MaxLookups
    /\ LET key == cache_key(l.schema, l.table)
           entry == EntryOf(_cache, key)
       IN  IF ~_connected
           THEN lookups' = Append(lookups,
                    Lookup(l, "done", FALSE, FALSE, FALSE, <<>>, entry))
           ELSE IF entry.present /\ CacheValid(entry.timestamp, now)
           THEN lookups' = Append(lookups,
                    Lookup(l, "done", TRUE, TRUE, FALSE, entry.columns, entry))
           ELSE lookups' = Append(lookups,
                    Lookup(l, "fetching", TRUE, FALSE, TRUE, <<>>, entry))
    /\ UNCHANGED <<projectorVars, limiterVars, clockVars, constructed, _connected, _cache,
                   probe, raised, catalog, changes>>

\* A call of _get_table_columns made when no other call is under way.
LookupBegin(l) == Idle /\ LookupEnter(l)

\* One requests.get of _fetch_table_columns returns; after the last one,
\* _fetch_table_columns returns and _get_table_columns stores and returns.
FetchStep(i) ==
    /\ i \in 1..Len(lookups)
    /\ lookups[i].state = "fetching"
    /\ LET e == lookups[i]
           patterns == fqn_patterns(e.schema, e.table)
           r == GetTable(patterns[e.candidate])
           got == Append(e.got, r)
           columns == TryCandidate(r).columns
       IN  IF TryCandidate(r).raises
           THEN \* the except Exception of _get_table_columns: return []
                /\ lookups' = [lookups EXCEPT ![i].got = got,
                                              ![i].state = "done",
                                              ![i].finished = now]
                /\ UNCHANGED _cache
           ELSE IF columns = <<>> /\ e.candidate < Len(patterns)
           THEN /\ lookups' = [lookups EXCEPT ![i].got = got,
                                              ![i].candidate = e.candidate + 1]
                /\ UNCHANGED _cache
           ELSE /\ _cache' = Store(_cache, cache_key(e.schema, e.table), columns, now)
                /\ lookups' = [lookups EXCEPT
                        ![i].got = got,
                        ![i].state = "done",
                        ![i].wrote = TRUE,
                        ![i].result = columns,
                        ![i].finished = now,
                        ![i].entry_after =
                            EntryOf(_cache', cache_key(e.schema, e.table))]
    /\ UNCHANGED <<projectorVars, limiterVars, clockVars, constructed, _connected, probe,
                   raised, catalog, changes>>

\* Variant of ClearCache that also marks the resolver disconnected.
ClearCacheDisconnecting ==
    /\ constructed
    /\ _cache # <<>>
    /\ _cache' = <<>>
    /\ _connected' = FALSE
    /\ UNCHANGED <<projectorVars, limiterVars, clockVars, constructed, probe,
                   raised, catalog, changes, lookups>>

\* clear_cache
ClearCache ==
    /\ constructed
    /\ _cache # <<>>
    /\ _cache' = <<>>
    /\ UNCHANGED <<projectorVars, limiterVars, clockVars, constructed, _connected, probe,
                   raised, catalog, changes, lookups>>

\* The catalog service changes one of its answers.
CatalogChange ==
    /\ constructed
    /\ ticks + changes < MaxTicks
    /\ changes' = changes + 1
    /\ \E f \in FQNs : \E r \in TableResponses \ {catalog[f]} :
            catalog' = [catalog EXCEPT ![f] = r]
    /\ UNCHANGED <<projectorVars, limiterVars, clockVars, constructed, _connected, _cache,
                   probe, raised, lookups>>

\* Amounts by which time.time() advances between two steps of the resolver.
ResolverClockSteps == {1, cache_ttl}

New == \E r \in StatusResponses : Construct(r)
BeginLookup == \E l \in Locators : LookupBegin(l)
\* A call made by any thread at any time, other calls under way or not.
BeginLookupConcurrent == \E l \in Locators : LookupEnter(l)
Fetch == \E i \in 1..MaxLookups : FetchStep(i)
AdvanceResolver == constructed /\ \E d \in ResolverClockSteps : Tick(d)

\* ----------------------------------------------------- the lineage graph
\* The parent of a column: None, a Table (with its schema), a SubQuery
\* (with its alias), or something else that format_column prints with str.
NoParent == [kind |-> "none", schema |-> "", name |-> ""]
Table(schema, name) == [kind |-> "table", schema |-> schema, name |-> name]
SubQuery(alias) == [kind |-> "subquery", schema |-> "", name |-> alias]
Column(raw_name, parent) == [raw_name |-> raw_name, parent |-> parent]

\* The columns of the graph.  Two columns are the same key of lineage_map
\* when they have the same name and the same parent.
Columns ==
    {Column("c", Table("<default>", "t")),
     Column("c", SubQuery("t")),
     Column("c", Table("s", "t")),
     Column("a", NoParent)}

\* A node of a path that is no Column (None, say): col.parent raises
\* AttributeError on it.
NotAColumn == [raw_name |-> "", parent |-> [kind |-> "missing", schema |-> "", name |-> ""]]
IsColumn(col) == col.parent.kind # "missing"

\* An entry of runner.source_tables that is no Table: table.schema raises.
NotATable == [kind |-> "missing", schema |-> "", name |-> ""]
IsTable(table) == table.kind = "table"

Range(f) == {f[x] : x \in DOMAIN f}

\* The runner as one call finds it: raises tells whether reading the graph
\* (get_column_lineage, source_tables, target_tables) raises.
Runner(raises) ==
    [raises |-> raises, paths |-> paths,
     source_tables |-> tables.source, target_tables |-> tables.target]

\* str(e) of the exceptions the views meet.
ParserError == "parser error"
IndexError == "tuple index out of range"
AttributeError == "object has no attribute"

\* One element of self.warnings: f"{prefix}: {str(e)}"
Warning(prefix, message) == [prefix |-> prefix, message |-> message]

\* The paths of at most n columns that pass no column twice (the graph is
\* acyclic), and the empty path.
RECURSIVE SimplePaths(_)
SimplePaths(n) ==
    IF n = 0 THEN {<<>>}
    ELSE LET shorter == SimplePaths(n - 1)
         IN  shorter \cup
             UNION {{Append(q, c) : c \in Columns \ Range(q)} :
                        q \in {r \in shorter : Len(r) = n - 1}}

ColumnPaths == SimplePaths(Cardinality(Columns))

\* What runner.get_column_lineage() may return.
PathLists == UNION {[1..n -> ColumnPaths] : n \in 0..MaxPaths}

\* ------------------------------------------------------- LineageService
\* format_column
format_column(col) ==
    CASE col.parent.kind = "none" -> col.raw_name
      [] col.parent.kind = "table" ->
            IF col.parent.schema # "" /\ col.parent.schema # "<default>"
            THEN col.parent.schema \o "." \o col.parent.name \o "." \o col.raw_name
            ELSE col.parent.name \o "." \o col.raw_name
      [] col.parent.kind = "subquery" -> col.parent.name \o "." \o col.raw_name
      [] OTHER -> col.parent.name \o "." \o col.raw_name

\* Variant of the second format_column that keeps the schema "<default>".
format_column_keeps_default(col) ==
    CASE col.parent.kind = "none" -> col.raw_name
      [] col.parent.kind = "table" ->
            IF col.parent.schema # ""
            THEN col.parent.schema \o "." \o col.parent.name \o "." \o col.raw_name
            ELSE col.parent.name \o "." \o col.raw_name
      [] OTHER -> col.parent.name \o "." \o col.raw_name

\* format_column of _extract_column_lineage_paths
format_column_in_paths(col) ==
    CASE col.parent.kind = "none" -> col.raw_name
      [] col.parent.kind = "table" ->
            IF col.parent.schema # "" /\ col.parent.schema # "<default>"
            THEN col.parent.schema \o "." \o col.parent.name \o "." \o col.raw_name
            ELSE col.parent.name \o "." \o col.raw_name
      [] col.parent.kind = "subquery" -> col.parent.name \o "." \o col.raw_name
      [] OTHER -> col.parent.name \o "." \o col.raw_name

\* The rendered strings of Columns in the order Python's str comparison
\* gives them.
RenderedOrder == <<"a", "s.t.c", "t.c">>
Rank(str) == CHOOSE k \in 1..Len(RenderedOrder) : RenderedOrder[k] = str

\* Variant of Ends that takes the first node of the path as the source.
EndsFromFirst(path) == [source |-> path[1], target |-> path[Len(path)]]

\* source, target = path[-2], path[-1] for two nodes or more;
\* source, target = path[0], path[-1] for one node.
Ends(path) ==
    IF Len(path) >= 2
    THEN [source |-> path[Len(path) - 1], target |-> path[Len(path)]]
    ELSE [source |-> path[1], target |-> path[Len(path)]]

\* lineage_map is a defaultdict(list): its keys in insertion order, each
\* with its list.  lineage_map[target].append(source)
AppendSource(lineage_map, target, source) ==
    IF \E k \in 1..Len(lineage_map) : lineage_map[k].target = target
    THEN [k \in 1..Len(lineage_map) |->
            IF lineage_map[k].target = target
            THEN [lineage_map[k] EXCEPT !.sources = Append(@, source)]
            ELSE lineage_map[k]]
    ELSE Append(lineage_map, [target |-> target, sources |-> <<source>>])

\* The for loop of _extract_column_pairs from path k on; path[0] of an
\* empty path raises IndexError, which ends the loop in the except clause.
RECURSIVE WalkPairs(_, _, _)
WalkPairs(ps, k, lineage_map) ==
    IF k > Len(ps) THEN [lineage_map |-> lineage_map, failed |-> FALSE]
    ELSE IF Len(ps[k]) = 0 THEN [lineage_map |-> lineage_map, failed |-> TRUE]
    ELSE WalkPairs(ps, k + 1,
             AppendSource(lineage_map, Ends(ps[k]).target, Ends(ps[k]).source))

\* sorted(lineage_map.keys(), key=format_column): a stable sort.
RECURSIVE InsertByKey(_, _)
InsertByKey(sorted, entry) ==
    IF sorted = <<>> THEN <<entry>>
    ELSE IF Rank(format_column(entry.target)) <
                Rank(format_column(sorted[Len(sorted)].target))
         THEN Append(InsertByKey(SubSeq(sorted, 1, Len(sorted) - 1), entry),
                     sorted[Len(sorted)])
         ELSE Append(sorted, entry)

\* Variant of SortByKey that keeps the order of insertion.
InsertionOrder(lineage_map) == lineage_map

RECURSIVE SortByKey(_)
SortByKey(lineage_map) ==
    IF lineage_map = <<>> THEN <<>>
    ELSE InsertByKey(SortByKey(SubSeq(lineage_map, 1, Len(lineage_map) - 1)),
                     lineage_map[Len(lineage_map)])

\* ColumnPair(target=format_column(target),
\*            sources=[format_column(s) for s in sources])
ColumnPair(entry) ==
    [target |-> format_column(entry.target),
     sources |-> [x \in 1..Len(entry.sources) |-> format_column(entry.sources[x])]]

\* The columns the loop of _extract_column_pairs put into lineage_map.
NodesOf(lineage_map) ==
    UNION {{lineage_map[x].target} \cup Range(lineage_map[x].sources) :
               x \in 1..Len(lineage_map)}

\* _extract_column_pairs.  failed: the except clause ran; raises: an
\* exception left the function (format_column, called after the try, met a
\* node that is no Column).
_extract_column_pairs(runner) ==
    LET walk == IF runner.raises
                THEN [lineage_map |-> <<>>, failed |-> TRUE]
                ELSE WalkPairs(runner.paths, 1, <<>>)
        raises == \E n \in NodesOf(walk.lineage_map) : ~IsColumn(n)
        ordered == IF raises THEN <<>> ELSE SortByKey(walk.lineage_map)
    IN  [done |-> TRUE,
         failed |-> walk.failed,
         raises |-> raises,
         lineage_map |-> walk.lineage_map,
         warnings |-> IF walk.failed
                      THEN <<Warning("Column lineage extraction warning",
                                     IF runner.raises THEN ParserError
                                     ELSE IndexError)>>
                      ELSE <<>>,
         result |-> [x \in 1..Len(ordered) |-> ColumnPair(ordered[x])]]

\* Variant of FormatPath that lists the columns target first.
FormatPathReversed(path) ==
    [y \in 1..Len(path) |-> format_column_in_paths(path[Len(path) + 1 - y])]

\* formatted_path = [format_column(col) for col in path]
FormatPath(path) == [y \in 1..Len(path) |-> format_column_in_paths(path[y])]

\* The for loop of _extract_column_lineage_paths from path k on; a node
\* that is no Column makes format_column raise, which ends the loop in the
\* except clause.
RECURSIVE WalkPaths(_, _, _)
WalkPaths(ps, k, lineage_paths) ==
    IF k > Len(ps) THEN [lineage_paths |-> lineage_paths, failed |-> FALSE]
    ELSE IF \E y \in 1..Len(ps[k]) : ~IsColumn(ps[k][y])
    THEN [lineage_paths |-> lineage_paths, failed |-> TRUE]
    ELSE WalkPaths(ps, k + 1, Append(lineage_paths, FormatPath(ps[k])))

\* _extract_column_lineage_paths
_extract_column_lineage_paths(runner) ==
    LET walk == IF runner.raises
                THEN [lineage_paths |-> <<>>, failed |-> TRUE]
                ELSE WalkPaths(runner.paths, 1, <<>>)
    IN  [done |-> TRUE,
         failed |-> walk.failed,
         raises |-> FALSE,
         lineage_map |-> <<>>,
         warnings |-> IF walk.failed
                      THEN <<Warning("Column lineage path extraction warning",
                                     IF runner.raises THEN ParserError
                                     ELSE AttributeError)>>
                      ELSE <<>>,
         result |-> walk.lineage_paths]

\* schema=str(table.schema.raw_name) if table.schema and
\* table.schema.raw_name != "<default>" else None
NoSchema == [present |-> FALSE, value |-> ""]
SchemaOf(table) ==
    IF table.schema # "" /\ table.schema # "<default>"
    THEN [present |-> TRUE, value |-> table.schema]
    ELSE NoSchema

\* Variant of TableLineageItem that leaves the schema out.
TableLineageItemBare(table) == [schema |-> NoSchema, table |-> table.name]

\* TableLineageItem(schema=..., table=table.raw_name)
TableLineageItem(table) == [schema |-> SchemaOf(table), table |-> table.name]

\* _extract_table_lineage: both comprehensions in one try; the except
\* clause returns [], [].
_extract_table_lineage(runner) ==
    LET failed == \/ runner.raises
                  \/ \E x \in 1..Len(runner.source_tables) :
                         ~IsTable(runner.source_tables[x])
                  \/ \E x \in 1..Len(runner.target_tables) :
                         ~IsTable(runner.target_tables[x])
    IN  [done |-> TRUE,
         failed |-> failed,
         raises |-> FALSE,
         lineage_map |-> <<>>,
         warnings |-> IF failed
                      THEN <<Warning("Table lineage extraction warning",
                                     IF runner.raises THEN ParserError
                                     ELSE AttributeError)>>
                      ELSE <<>>,
         result |-> IF failed
                    THEN [source_tables |-> <<>>, target_tables |-> <<>>]
                    ELSE [source_tables |->
                             [x \in 1..Len(runner.source_tables) |->
                                 TableLineageItem(runner.source_tables[x])],
                          target_tables |->
                             [x \in 1..Len(runner.target_tables) |->
                                 TableLineageItem(runner.target_tables[x])]]]

NotCalled ==
    [done |-> FALSE, failed |-> FALSE, raises |-> FALSE, lineage_map |-> <<>>,
     warnings |-> <<>>, result |-> <<>>]

ExtractColumnPairs ==
    /\ ~pairs_call.done
    /\ pairs_call' = _extract_column_pairs(Runner(FALSE))
    /\ UNCHANGED <<limiterVars, clockVars, resolverVars, paths, paths_call,
                   serviceVars>>

ExtractColumnLineagePaths ==
    /\ ~paths_call.done
    /\ paths_call' = _extract_column_lineage_paths(Runner(FALSE))
    /\ UNCHANGED <<limiterVars, clockVars, resolverVars, paths, pairs_call,
                   serviceVars>>

\* ------------------------------------------------------- LineageService
\* The SQL texts a service is built with.
SqlTexts == {<<>>, <<"q", ";", " ">>, <<"q", ";", "q">>}

\* s.split(";")
RECURSIVE Split(_)
Split(s) ==
    IF \A x \in 1..Len(s) : s[x] # ";" THEN <<s>>
    ELSE LET x == CHOOSE y \in 1..Len(s) :
                     s[y] = ";" /\ \A z \in 1..(y - 1) : s[z] # ";"
         IN  <<SubSeq(s, 1, x - 1)>> \o Split(SubSeq(s, x + 1, Len(s)))

\* len([s.strip() for s in self.sql.split(";") if s.strip()])
StatementCount(text) ==
    Cardinality({x \in 1..Len(Split(text)) : Strip(Split(text)[x]) # <<>>})

\* The graphs the parser hands to the views, well-formed or not.
ServicePaths ==
    { <<>>,
      <<Column("a", NoParent), Column("c", Table("s", "t"))>>,
      <<Column("c", SubQuery("t"))>>,
      <<Column("a", NoParent), NotAColumn>> }
ServicePathLists == UNION {[1..n -> ServicePaths] : n \in 0..MaxPaths}
ServiceTables ==
    { [source |-> <<>>, target |-> <<>>],
      [source |-> <<Table("s", "t")>>, target |-> <<Table("<default>", "u")>>],
      [source |-> <<NotATable>>, target |-> <<Table("s", "t")>>] }

\* What the parser does in one call: it works, LineageRunner(...) raises,
\* or reading the graph from the runner raises.
ParserOutcomes == {"ok", "construction", "access"}

\* LineageService.__init__
NewService ==
    [warnings |-> <<>>, statement_count |-> 0, successful_statements |-> 0,
     failed_statements |-> 0]

\* _create_runner: the service afterwards and whether it raises.
_create_runner(svc, text, outcome) ==
    LET counted == [svc EXCEPT !.statement_count = StatementCount(text)]
    IN  IF outcome = "construction"
        THEN [raises |-> TRUE,
              service |-> [counted EXCEPT
                  !.warnings = Append(@, Warning("Parsing error", ParserError)),
                  !.failed_statements = counted.statement_count,
                  !.successful_statements = 0]]
        ELSE [raises |-> FALSE,
              service |-> [counted EXCEPT
                  !.successful_statements = counted.statement_count,
                  !.failed_statements = 0]]

\* self._extract_*(runner) of the view
Extract(view, runner) ==
    CASE view = "column_pairs" -> _extract_column_pairs(runner)
      [] view = "table_lineage" -> _extract_table_lineage(runner)
      [] view = "column_lineage" -> _extract_column_lineage_paths(runner)

\* The result of a response built in the except clause of a get_* method.
EmptyResult(view) ==
    IF view = "table_lineage"
    THEN [source_tables |-> <<>>, target_tables |-> <<>>]
    ELSE <<>>

\* LineageMetadata(...) of the return in the try block.
Metadata(svc) ==
    [statement_count |-> svc.statement_count,
     successful_statements |-> svc.successful_statements,
     failed_statements |-> svc.failed_statements]

\* LineageMetadata(...) of the return in the except clause.
FailureMetadata(svc) ==
    [statement_count |-> svc.statement_count,
     successful_statements |-> 0,
     failed_statements |-> svc.statement_count]

\* The return of the except clause of a get_* method.
Recovered(view, svc, message) ==
    LET after == [svc EXCEPT
            !.warnings = Append(@, Warning("Error processing lineage", message))]
    IN  [service |-> after,
         response |-> [raised |-> FALSE, result |-> EmptyResult(view),
                       warnings |-> after.warnings,
                       metadata |-> FailureMetadata(after)]]

\* Variant of GetView without the except clause: the exception leaves the
\* method.
GetViewUnguarded(view, svc, text, outcome) ==
    LET created == _create_runner(svc, text, outcome)
        extracted == Extract(view, Runner(outcome = "access"))
        after == [created.service EXCEPT !.warnings = @ \o extracted.warnings]
    IN  IF created.raises \/ extracted.raises
        THEN [service |-> created.service,
              response |-> [raised |-> TRUE, result |-> EmptyResult(view),
                            warnings |-> <<>>,
                            metadata |-> Metadata(created.service)]]
        ELSE [service |-> after,
              response |-> [raised |-> FALSE, result |-> extracted.result,
                            warnings |-> after.warnings,
                            metadata |-> Metadata(after)]]

\* Variant of GetView that gives up on a service that holds a warning.
GetViewOnceFailed(view, svc, text, outcome) ==
    LET created == _create_runner(svc, text, outcome)
        extracted == Extract(view, Runner(outcome = "access"))
        after == [created.service EXCEPT !.warnings = @ \o extracted.warnings]
    IN  IF created.raises \/ extracted.raises \/ svc.warnings # <<>>
        THEN Recovered(view, created.service, ParserError)
        ELSE [service |-> after,
              response |-> [raised |-> FALSE, result |-> extracted.result,
                            warnings |-> after.warnings,
                            metadata |-> Metadata(after)]]

\* The body of get_column_pairs, get_table_lineage and get_column_lineage,
\* which differ in the view they extract only: the service afterwards and
\* the response.
GetView(view, svc, text, outcome) ==
    LET created == _create_runner(svc, text, outcome)
        extracted == Extract(view, Runner(outcome = "access"))
        after == [created.service EXCEPT !.warnings = @ \o extracted.warnings]
    IN  IF created.raises THEN Recovered(view, created.service, ParserError)
        ELSE IF extracted.raises THEN Recovered(view, after, AttributeError)
        ELSE [service |-> after,
              response |-> [raised |-> FALSE, result |-> extracted.result,
                            warnings |-> after.warnings,
                            metadata |-> Metadata(after)]]

get_column_pairs(svc, text, outcome) == GetView("column_pairs", svc, text, outcome)
get_table_lineage(svc, text, outcome) == GetView("table_lineage", svc, text, outcome)
get_column_lineage(svc, text, outcome) == GetView("column_lineage", svc, text, outcome)

\* One call of a get_* method on the service, logged with its response.
Call(view, outcome, returned) ==
    /\ Len(calls) < MaxCalls
    /\ service' = returned.service
    /\ calls' = Append(calls, [view |-> view, outcome |-> outcome,
                               before |-> service,
                               response |-> returned.response])
    /\ UNCHANGED <<limiterVars, clockVars, resolverVars, paths, pairs_call,
                   paths_call, sql, tables, metadata_provider>>

GetColumnPairs ==
    \E outcome \in ParserOutcomes :
        Call("column_pairs", outcome, get_column_pairs(service, sql, outcome))

GetTableLineage ==
    \E outcome \in ParserOutcomes :
        Call("table_lineage", outcome, get_table_lineage(service, sql, outcome))

GetColumnLineage ==
    \E outcome \in ParserOutcomes :
        Call("column_lineage", outcome, get_column_lineage(service, sql, outcome))

\* ------------------------------------------------------- specifications
LimiterInit ==
    /\ request_timestamps = <<>>
    /\ reqs = <<>>
    /\ arrivals = <<>>

ResolverInit ==
    /\ constructed = FALSE
    /\ _connected = FALSE
    /\ _cache = <<>>
    /\ probe = Raises
    /\ raised = FALSE
    /\ changes = 0
    /\ lookups = <<>>

ClockInit == now = 0 /\ ticks = 0

\* self.metadata_provider = metadata_provider or DummyMetaDataProvider(),
\* no provider given.
ServiceInit ==
    /\ service = NewService
    /\ calls = <<>>
    /\ metadata_provider = "DummyMetaDataProvider"

\* No service is built: the views are called on their own or not at all.
NoService ==
    /\ ServiceInit
    /\ sql = <<>>
    /\ tables = [source |-> <<>>, target |-> <<>>]

ProjectorInit == pairs_call = NotCalled /\ paths_call = NotCalled /\ NoService

\* The middleware, constructed with any limit; the resolver is not used.
Init ==
    /\ requests_per_minute \in 0..MaxLimit
    /\ LimiterInit /\ ClockInit /\ ResolverInit
    /\ ProjectorInit /\ paths = <<>>
    /\ catalog = [f \in FQNs |-> NotFound]

Next == Dispatch \/ Respond \/ Advance

Spec == Init /\ [][Next]_vars

\* The resolver, facing any catalog; the middleware is not used.
InitResolver ==
    /\ requests_per_minute = MaxLimit
    /\ LimiterInit /\ ClockInit /\ ResolverInit
    /\ ProjectorInit /\ paths = <<>>
    /\ catalog \in Catalogs

\* The resolver facing a catalog that changes: at first the catalog gives
\* the same answer under both names of a table, and every change of one
\* answer leads it to any other catalog.
InitResolverChanging ==
    /\ InitResolver
    /\ \A f \in FQNs : \A g \in FQNs : catalog[f] = catalog[g]

NextResolver ==
    New \/ BeginLookup \/ Fetch \/ ClearCache \/ CatalogChange
        \/ AdvanceResolver

SpecResolver == InitResolverChanging /\ [][NextResolver]_vars

\* The resolver facing a catalog that never changes, its cache never cleared.
NextResolverFixed == New \/ BeginLookup \/ Fetch \/ AdvanceResolver

SpecResolverFixed == InitResolver /\ [][NextResolverFixed]_vars

\* The resolver used by several threads: a call of _get_table_columns may
\* begin while others wait in requests.get.  A call touches the shared
\* cache in two places, where it reads its key and where it assigns it, and
\* each is one step here; the cache is never cleared.  At first the
\* catalog knows the table under both names; every other catalog is
\* reached by its changes.
InitResolverConcurrent ==
    /\ InitResolver
    /\ \A f \in FQNs : catalog[f] = Ok(<<"id">>)

NextResolverConcurrent ==
    New \/ BeginLookupConcurrent \/ Fetch \/ CatalogChange \/ AdvanceResolver

SpecResolverConcurrent == InitResolverConcurrent /\ [][NextResolverConcurrent]_vars

\* The middleware under its highest limit, facing requests that differ in
\* X-Forwarded-For and in peer address: headers of one entry and of two,
\* padded, empty and blank, and no header; the clock stands still.
IdentityOrigins ==
    { [forwarded |-> Given(<<"a">>), client |-> Given(<<"x">>)],
      [forwarded |-> Given(<<" ", "a", " ", ",", "b">>), client |-> Given(<<"y">>)],
      [forwarded |-> Given(<<"b">>), client |-> Given(<<"x">>)],
      [forwarded |-> Absent, client |-> Given(<<"x">>)],
      [forwarded |-> Absent, client |-> Absent],
      [forwarded |-> Given(<<>>), client |-> Given(<<"x">>)],
      [forwarded |-> Given(<<>>), client |-> Given(<<"y">>)],
      [forwarded |-> Given(<<" ">>), client |-> Given(<<"x">>)] }

NextIdentity ==
    \E o \in IdentityOrigins :
        DispatchLogged([path |-> "/api/v1/lineage/table",
                        forwarded |-> o.forwarded, client |-> o.client])

SpecIdentity == Init /\ [][NextIdentity]_vars

\* One request to the router with OpenMetadata enabled and configured:
\* _get_metadata_provider builds the resolver, LineageService.__init__ picks
\* its provider, and the parser calls the provider it was given.
NoProvider == "not built"

\* Variant of __bool__ that is true of every resolver.
AlwaysTruthy(connected) == TRUE

\* OpenMetadataProvider.__bool__
__bool__(connected) == connected

\* LineageService.__init__ on what _get_metadata_provider returned:
\* self.metadata_provider = metadata_provider or DummyMetaDataProvider()
BuildService ==
    /\ constructed
    /\ metadata_provider = NoProvider
    /\ metadata_provider' = IF __bool__(_connected)
                            THEN "OpenMetadataProvider"
                            ELSE "DummyMetaDataProvider"
    /\ UNCHANGED <<limiterVars, clockVars, resolverVars, paths, pairs_call,
                   paths_call, sql, tables, service, calls>>

\* The parser asks the provider of the service for the columns of a table.
ParserCallback ==
    /\ metadata_provider = "OpenMetadataProvider"
    /\ \E l \in Locators : LookupBegin(l)

InitRequest ==
    /\ requests_per_minute = MaxLimit
    /\ LimiterInit /\ ClockInit /\ ResolverInit
    /\ catalog \in Catalogs
    /\ pairs_call = NotCalled /\ paths_call = NotCalled /\ paths = <<>>
    /\ service = NewService /\ calls = <<>>
    /\ sql = <<>> /\ tables = [source |-> <<>>, target |-> <<>>]
    /\ metadata_provider = NoProvider

NextRequest == New \/ BuildService \/ ParserCallback \/ Fetch \/ AdvanceResolver

SpecRequest == InitRequest /\ [][NextRequest]_vars

\* The resolver asked for tables whose schema or name holds a dot; the
\* catalog answers under each of the names the two locators lead to.
DottedLocators ==
    {[schema |-> "a.b", table |-> "c"], [schema |-> "a", table |-> "b.c"]}

InitDotted ==
    /\ requests_per_minute = MaxLimit
    /\ LimiterInit /\ ClockInit /\ ResolverInit
    /\ ProjectorInit /\ paths = <<>>
    /\ catalog \in [{"a.b.c", "c", "b.c"} ->
                        {NotFound, Ok(<<"id">>), Ok(<<"id", "name">>)}]

NextDotted ==
    New \/ (\E l \in DottedLocators : LookupBegin(l)) \/ Fetch \/ AdvanceResolver

SpecDotted == InitDotted /\ [][NextDotted]_vars

\* The resolver facing a catalog service that answers every request or
\* lets it time out: a requests.get under way returns after self.timeout
\* at the latest, so a fetch that can take a step takes it.
SpecResolverFair == SpecResolverFixed /\ WF_vars(Fetch)

\* The projector, given any list of paths; the middleware and the resolver
\* are not used.
InitProjector ==
    /\ requests_per_minute = MaxLimit
    /\ LimiterInit /\ ClockInit /\ ResolverInit
    /\ catalog = [f \in FQNs |-> NotFound]
    /\ ProjectorInit
    /\ paths \in PathLists

NextProjector == ExtractColumnPairs \/ ExtractColumnLineagePaths

SpecProjector == InitProjector /\ [][NextProjector]_vars

\* Both views on one path of one column, the column of any kind: its parent
\* none, a table (without schema, in the default schema or in a named one),
\* a subquery or a Path.
Path(uri) == [kind |-> "path", schema |-> "", name |-> uri]
RawNames == {"c", "d", "e"}
Parents ==
    {NoParent, SubQuery("t"), SubQuery("q"), Path("f")}
        \cup {Table(schema, name) : schema \in {"", "<default>", "s", "p"},
                                    name \in {"t", "u"}}
RenderColumns == {Column(raw_name, parent) : raw_name \in RawNames,
                                             parent \in Parents}

InitRender ==
    /\ requests_per_minute = MaxLimit
    /\ LimiterInit /\ ClockInit /\ ResolverInit
    /\ catalog = [f \in FQNs |-> NotFound]
    /\ ProjectorInit
    /\ paths \in {<<<<col>>>> : col \in RenderColumns}

SpecRender == InitRender /\ [][NextProjector]_vars

\* The table-lineage view on any distinct source tables and target tables.
\* The parser tells tables apart by schema and name, and to it a table
\* without schema is a table in "<default>".
Tables == {Table(schema, name) : schema \in {"", "<default>", "s"},
                                 name \in {"t", "u"}}
Identity(table) ==
    <<IF table.schema = "" THEN "<default>" ELSE table.schema, table.name>>
TableLists ==
    {l \in UNION {[1..n -> Tables] : n \in 0..MaxTables} :
        \A x \in 1..Len(l) : \A y \in 1..Len(l) :
            Identity(l[x]) = Identity(l[y]) => x = y}

InitTables ==
    /\ requests_per_minute = MaxLimit
    /\ LimiterInit /\ ClockInit /\ ResolverInit
    /\ catalog = [f \in FQNs |-> NotFound]
    /\ pairs_call = NotCalled /\ paths_call = NotCalled
    /\ ServiceInit
    /\ sql = <<"q">>
    /\ paths = <<>>
    /\ tables \in [source : TableLists, target : TableLists]

NextTables == GetTableLineage

SpecTables == InitTables /\ [][NextTables]_vars

\* One LineageService on any SQL text and any graph, its get_* methods
\* called in any order; the middleware and the resolver are not used.
InitService ==
    /\ requests_per_minute = MaxLimit
    /\ LimiterInit /\ ClockInit /\ ResolverInit
    /\ catalog = [f \in FQNs |-> NotFound]
    /\ pairs_call = NotCalled /\ paths_call = NotCalled
    /\ ServiceInit
    /\ sql \in SqlTexts
    /\ paths \in ServicePathLists
    /\ tables \in ServiceTables

NextService == GetColumnPairs \/ GetTableLineage \/ GetColumnLineage

SpecService == InitService /\ [][NextService]_vars

\* ------------------------------------------------- claims on the limiter
NonExempt(i) == reqs[i].path # HealthPath
SameIdentity(j, k) == reqs[j].client_ip = reqs[k].client_ip
Gap(j, k) == reqs[k].current_time - reqs[j].current_time

\* The non-exempt requests of the identity of request j among requests j..k.
RequestsFrom(j, k) == {x \in j..k : NonExempt(x) /\ SameIdentity(x, j)}

\* Requests j < k are two non-exempt requests of one identity with no
\* non-exempt request of that identity between them.
Consecutive(j, k) ==
    /\ j < k
    /\ NonExempt(j) /\ NonExempt(k) /\ SameIdentity(j, k)
    /\ RequestsFrom(j, k) = {j, k}

\* Number of the timestamps retained when request i arrived that lie in its
\* window.
RetainedCount(i) ==
    Cardinality({x \in 1..Len(reqs[i].before) :
                    reqs[i].before[x] >= reqs[i].current_time - window_size})

\* The timestamps of the admitted non-exempt requests of identity ip among
\* the first n requests, in dispatch order.
RECURSIVE AdmittedTimes(_, _)
AdmittedTimes(ip, n) ==
    IF n = 0 THEN <<>>
    ELSE IF NonExempt(n) /\ reqs[n].client_ip = ip /\ reqs[n].called
         THEN Append(AdmittedTimes(ip, n - 1), reqs[n].current_time)
         ELSE AdmittedTimes(ip, n - 1)

RECURSIVE NotBefore(_, _)
NotBefore(s, cutoff) ==
    IF s = <<>> THEN <<>>
    ELSE IF Head(s) >= cutoff THEN <<Head(s)>> \o NotBefore(Tail(s), cutoff)
         ELSE NotBefore(Tail(s), cutoff)

\* The time of the latest non-exempt request of identity ip.
LastSeen(ip) ==
    LET S == {x \in 1..Len(reqs) : NonExempt(x) /\ reqs[x].client_ip = ip}
    IN  reqs[CHOOSE x \in S : \A y \in S : y <= x].current_time

Identities ==
    DOMAIN request_timestamps \cup
        {reqs[x].client_ip : x \in {y \in 1..Len(reqs) : NonExempt(y)}}

\* An identity starts from no record at request j and sends its requests
\* up to request k inside one window.
OneWindowRun(j, k) ==
    /\ j <= k
    /\ NonExempt(j) /\ NonExempt(k) /\ SameIdentity(j, k)
    /\ ~reqs[j].had_record
    /\ Gap(j, k) <= window_size
    /\ requests_per_minute >= 1

\* C1: for every identity and every limit L >= 1, of L+1 non-exempt requests
\* dispatched inside one window starting from no record, the first L are
\* admitted (each appending its timestamp) and the (L+1)-th is denied.
C1_FirstLAdmittedNextDenied ==
    \A j \in 1..Len(reqs), k \in 1..Len(reqs) :
        OneWindowRun(j, k) =>
            LET n == Cardinality(RequestsFrom(j, k))
            IN  /\ n <= requests_per_minute =>
                    /\ reqs[k].called
                    /\ reqs[k].after = Append(reqs[k].before, reqs[k].current_time)
                /\ n = requests_per_minute + 1 => ~reqs[k].called

\* C1 witness: with limit 2, a third request inside the window is denied.
C1_Witness ==
    /\ requests_per_minute = 2
    /\ \E j \in 1..Len(reqs), k \in 1..Len(reqs) :
        /\ OneWindowRun(j, k)
        /\ Cardinality(RequestsFrom(j, k)) = 3
        /\ ~reqs[k].called

C3_Original ==
    \A j \in 1..Len(reqs), k \in 1..Len(reqs) :
        (/\ Consecutive(j, k)
         /\ ~reqs[j].called
         /\ requests_per_minute >= 1
         /\ Gap(j, k) >= window_size) => reqs[k].called

\* C3 amended: with a limit >= 1, after a silence of more than window_size
\* seconds the next request of a denied identity is admitted; after a silence
\* of exactly window_size seconds it is admitted iff fewer than
\* requests_per_minute retained timestamps carry the time of the denial
\* (a timestamp exactly window_size old is retained).
C3_DenialClearsAfterWindow ==
    \A j \in 1..Len(reqs), k \in 1..Len(reqs) :
        (/\ Consecutive(j, k)
         /\ ~reqs[j].called
         /\ requests_per_minute >= 1) =>
            /\ Gap(j, k) > window_size => reqs[k].called
            /\ Gap(j, k) = window_size =>
                (reqs[k].called <=>
                    Cardinality({x \in 1..Len(reqs[k].before) :
                        reqs[k].before[x] = reqs[j].current_time})
                      < requests_per_minute)

\* C3 witness: a denied identity is admitted again after more than a window.
C3_Witness ==
    \E j \in 1..Len(reqs), k \in 1..Len(reqs) :
        /\ Consecutive(j, k)
        /\ ~reqs[j].called
        /\ Gap(j, k) > window_size
        /\ reqs[k].called

\* C4: a denied non-exempt request leaves the identity's retained sequence
\* as it found it: nothing appended, nothing removed.
C4_DeniedLeavesRecord ==
    \A i \in 1..Len(reqs) :
        (NonExempt(i) /\ ~reqs[i].called) => reqs[i].after = reqs[i].before

\* C4 witness: a request was denied while its identity had timestamps.
C4_Witness ==
    \E i \in 1..Len(reqs) :
        NonExempt(i) /\ reqs[i].state = "denied" /\ reqs[i].before # <<>>

\* C5: a request to /health is handed to call_next whatever was dispatched
\* before it, and no step of it changes request_timestamps.
C5_HealthBypasses ==
    [][\A i \in 1..Len(reqs') :
          (/\ reqs'[i].path = HealthPath
           /\ (i > Len(reqs) \/ reqs'[i] # reqs[i])) =>
              /\ reqs'[i].called
              /\ request_timestamps' = request_timestamps]_vars

\* C5 witness: a /health request completed after a request had been denied.
C5_Witness ==
    \E i \in 1..Len(reqs), j \in 1..Len(reqs) :
        /\ i < j
        /\ reqs[i].state = "denied"
        /\ reqs[j].path = HealthPath /\ reqs[j].state = "done"

\* C6: a non-exempt request that finds requests_per_minute or more
\* timestamps in its window is never handed to call_next.
C6_DeniedNeverCallsNext ==
    \A i \in 1..Len(reqs) :
        (NonExempt(i) /\ RetainedCount(i) >= requests_per_minute) =>
            ~reqs[i].called /\ reqs[i].state = "denied"

\* C6 witness: a request met a full window of an identity with limit 2
\* while an earlier request of the identity was still downstream.
C6_Witness ==
    \E i \in 1..Len(reqs), k \in 1..Len(reqs) :
        /\ requests_per_minute = 2
        /\ NonExempt(k) /\ RetainedCount(k) >= 2 /\ reqs[k].state = "denied"
        /\ i < k /\ SameIdentity(i, k) /\ reqs[i].state = "downstream"

\* ------------------------------------------------ claims on the resolver
SameLocator(j, k) ==
    lookups[j].schema = lookups[k].schema /\ lookups[j].table = lookups[k].table

\* Lookup i went through _fetch_table_columns and no candidate gave a
\* usable answer.
AllCandidatesFailed(i) ==
    /\ lookups[i].state = "done"
    /\ lookups[i].fetched
    /\ Len(lookups[i].got) = Len(fqn_patterns(lookups[i].schema, lookups[i].table))
    /\ \A c \in 1..Len(lookups[i].got) : ~Usable(lookups[i].got[c])

\* Lookup j is the first lookup of its locator.
FirstOfLocator(j) == \A x \in 1..(j - 1) : ~SameLocator(x, j)

\* The probe of __init__ failed: requests.get raised, or raise_for_status did.
ProbeFailed == probe.kind = "exception" \/ probe.status >= 400

\* C7: on a connected resolver a lookup that fails through every candidate
\* returns the empty list and leaves the cache as it was, so that the next
\* lookup of the locator fetches again.
C7_NoNegativeCaching ==
    \A i \in 1..Len(lookups) :
        AllCandidatesFailed(i) =>
            /\ lookups[i].result = <<>>
            /\ lookups[i].entry_after = lookups[i].entry_before
            /\ \A k \in 1..Len(lookups) :
                (k = i + 1 /\ SameLocator(i, k)) => lookups[k].fetched

\* C8: facing a catalog that does not change, every lookup of a locator that
\* begins less than cache_ttl seconds after the first lookup of that locator
\* does no fetch and returns what the first lookup returned, so the lookups
\* of that period cause at most one fetch.
C8_OneFetchWithinTtl ==
    \A j \in 1..Len(lookups) :
        (_connected /\ FirstOfLocator(j)) =>
            LET within == {k \in j..Len(lookups) :
                             /\ SameLocator(j, k)
                             /\ lookups[k].started - lookups[j].started < cache_ttl}
            IN  /\ \A k \in within \ {j} :
                    /\ ~lookups[k].fetched
                    /\ lookups[k].got = <<>>
                    /\ lookups[k].state = "done"
                    /\ lookups[k].result = lookups[j].result
                /\ Cardinality({k \in within : lookups[k].fetched}) <= 1

\* C8 witness: a later lookup inside the TTL was answered from the cache
\* with the columns the first lookup had fetched.
C8_Witness ==
    \E j \in 1..Len(lookups), k \in 1..Len(lookups) :
        /\ j < k /\ FirstOfLocator(j) /\ SameLocator(j, k)
        /\ lookups[j].fetched /\ lookups[j].result # <<>>
        /\ lookups[k].started > lookups[j].started
        /\ lookups[k].started - lookups[j].started < cache_ttl
        /\ lookups[k].hit /\ lookups[k].result = lookups[j].result

C9_Lookups ==
    \A i \in 1..Len(lookups) :
        LET e == lookups[i]
            age == e.started - e.entry_before.timestamp
        IN  /\ (e.cache_read /\ e.entry_before.present /\ age < cache_ttl) => e.hit
            /\ (e.cache_read /\ e.entry_before.present /\ age >= cache_ttl) =>
                    ~e.hit /\ e.fetched
            /\ (e.state = "done" /\ e.fetched /\ e.result # <<>>) =>
                    e.entry_after = [present |-> TRUE, columns |-> e.result,
                                     timestamp |-> e.finished]

\* C9 as stated: as C9 below, but no step at all removes an expired entry.
C9_Original ==
    /\ []C9_Lookups
    /\ [][\A key \in DOMAIN _cache :
            now - _cache[key].timestamp >= cache_ttl => key \in DOMAIN _cache']_vars

\* C9 amended: an entry is valid only while now - timestamp < cache_ttl; a
\* lookup that finds its entry cache_ttl seconds old or older misses and
\* fetches, and a successful fetch overwrites the entry with the fetched
\* columns and the current time; no step but clear_cache removes an entry,
\* expired or not.
C9_ExpiryAndOverwrite ==
    /\ []C9_Lookups
    /\ [][ClearCache \/ (\A key \in DOMAIN _cache : key \in DOMAIN _cache')]_vars

\* C9 witness: a lookup found its entry exactly cache_ttl old, fetched, and
\* replaced the columns by other ones.
C9_Witness ==
    \E i \in 1..Len(lookups) :
        LET e == lookups[i]
        IN  /\ e.state = "done" /\ e.entry_before.present
            /\ e.started - e.entry_before.timestamp = cache_ttl
            /\ e.fetched /\ e.result # <<>>
            /\ e.result # e.entry_before.columns
            /\ e.entry_after.columns = e.result

\* C10: when the probe of __init__ failed the resolver stays disconnected,
\* and every lookup returns the empty list at once: no request, no read and
\* no write of the cache, whatever the catalog answers later.
C10_DegradedForLife ==
    (constructed /\ ProbeFailed) =>
        /\ ~_connected
        /\ _cache = <<>>
        /\ \A i \in 1..Len(lookups) :
            /\ lookups[i].state = "done"
            /\ lookups[i].result = <<>>
            /\ ~lookups[i].cache_read /\ ~lookups[i].hit
            /\ ~lookups[i].fetched /\ lookups[i].got = <<>>
            /\ ~lookups[i].wrote

\* C10 witness: after a failed probe the catalog came to answer the locator
\* with columns, and a lookup made then returned the empty list.
C10_Witness ==
    /\ constructed /\ ProbeFailed /\ changes > 0
    /\ \E i \in 1..Len(lookups) :
        /\ Usable(GetTable(fqn_patterns(lookups[i].schema, lookups[i].table)[1]))
        /\ lookups[i].state = "done" /\ lookups[i].result = <<>>

\* The names a column list may hold: those the catalog's answers carry.
ColumnNames == UNION {{r.columns[k] : k \in 1..Len(r.columns)} : r \in TableResponses}

IsColumnList(result) ==
    /\ DOMAIN result = 1..Len(result)
    /\ \A k \in 1..Len(result) : result[k] \in ColumnNames

\* C11: the resolver never raises to its caller: whatever the catalog
\* service does (failed probe, not found, error status, malformed body,
\* exception, timeout), construction completes and every lookup that has
\* returned returned a list of column names, the empty list standing for
\* absence.
C11_NeverRaises ==
    /\ ~raised
    /\ \A i \in 1..Len(lookups) :
           lookups[i].state = "done" =>
               /\ IsColumnList(lookups[i].result)
               /\ (AllCandidatesFailed(i) \/ ~_connected) => lookups[i].result = <<>>

\* C11 witness: a lookup of a connected resolver met a malformed body and
\* an exception and returned the empty list.
C11_Witness ==
    /\ constructed /\ _connected
    /\ \E i \in 1..Len(lookups) :
           /\ lookups[i].state = "done"
           /\ lookups[i].got = <<Malformed, Raises>>
           /\ lookups[i].result = <<>>

\* What the catalog answers at present under "schema.table" and under "table".
Qualified(i) == GetTable(lookups[i].schema \o "." \o lookups[i].table)
Bare(i) == GetTable(lookups[i].table)

\* C12: a lookup that asks the catalog returns the list found under
\* "schema.table" when that answer is successful and non-empty, whatever
\* "table" answers; when "schema.table" is empty or unsuccessful and "table"
\* is successful and non-empty, it returns the list found under "table".
C12_QualifiedThenBare ==
    \A i \in 1..Len(lookups) :
        (lookups[i].state = "done" /\ lookups[i].fetched) =>
            /\ Usable(Qualified(i)) => lookups[i].result = Qualified(i).columns
            /\ (~Usable(Qualified(i)) /\ Usable(Bare(i))) =>
                   lookups[i].result = Bare(i).columns

\* C12 witness: "schema.table" answered 200 with no columns, "table" answered
\* with columns, and the lookup returned the latter.
C12_Witness ==
    \E i \in 1..Len(lookups) :
        /\ lookups[i].state = "done" /\ lookups[i].fetched
        /\ Qualified(i) = Ok(<<>>)
        /\ Usable(Bare(i))
        /\ lookups[i].got = <<Qualified(i), Bare(i)>>
        /\ lookups[i].result = Bare(i).columns

Max0(n) == IF n > 0 THEN n ELSE 0

\* Request i was admitted and its response has left dispatch.
AdmittedDone(i) == NonExempt(i) /\ reqs[i].called /\ reqs[i].state = "done"

\* C13: the remaining value on every admitted response is
\* max(0, limit - count_after_admission), where count_after_admission is the
\* number of timestamps retained for the identity right after the request's
\* own timestamp was appended, whatever other requests of the identity were
\* admitted or pruned while the request was handled downstream.
C13_RemainingIsCountAfterAdmission ==
    \A i \in 1..Len(reqs) :
        AdmittedDone(i) =>
            reqs[i].headers.remaining =
                Max0(requests_per_minute - Len(reqs[i].after))

\* C14: among the non-exempt requests one identity sends within one window,
\* starting from no record, every admitted response carries the three
\* headers with remaining >= 0, remaining is strictly smaller on each
\* admitted response than on the admitted response before it, and of
\* limit + 1 such requests at least one is denied.
C14_RemainingStrictlyDecreasing ==
    \A f \in 1..Len(reqs) : \A k \in f..Len(reqs) :
        OneWindowRun(f, k) =>
            /\ AdmittedDone(k) =>
                   reqs[k].headers.present /\ reqs[k].headers.remaining >= 0
            /\ \A j \in f..(k - 1) :
                   (SameIdentity(f, j) /\ AdmittedDone(j) /\ AdmittedDone(k)) =>
                       reqs[j].headers.remaining > reqs[k].headers.remaining
            /\ Cardinality(RequestsFrom(f, k)) > requests_per_minute =>
                   \E x \in RequestsFrom(f, k) : ~reqs[x].called

\* C15: every response to a non-exempt request, admitted or denied, carries
\* the three rate-limit headers.
C15_HeadersOnEveryResponse ==
    \A i \in 1..Len(reqs) :
        (NonExempt(i) /\ reqs[i].state \in {"done", "denied"}) =>
            reqs[i].headers.present

\* C16: a denied request reaches the client as a 429 response whose body
\* carries error, limit, window and message; the exception raised in the
\* middleware does not become a server-error response or an unhandled
\* exception on its way out through the outer middlewares.
C16_DenialReachesClientAs429 ==
    \A i \in 1..Len(reqs) :
        reqs[i].state = "denied" =>
            /\ reqs[i].response.status = 429
            /\ ~reqs[i].response.unhandled
            /\ {"error", "limit", "window", "message"}
                   \subseteq DOMAIN reqs[i].response.body.detail

\* ---------------------------------------------- claims on the projector
\* The paths the loop of _extract_column_pairs went through: those before
\* the first empty one.
Processed == {k \in 1..Len(paths) : \A j \in 1..k : paths[j] # <<>>}

\* The last node of a path and the node recorded as its predecessor.
Last(path) == path[Len(path)]
Predecessor(path) == IF Len(path) >= 2 THEN path[Len(path) - 1] ELSE path[1]

NoRepeats(seq) ==
    \A x \in 1..Len(seq) : \A y \in 1..Len(seq) : seq[x] = seq[y] => x = y

\* C17: when two or more paths end in columns that render to the same
\* target string, the column-pairs view has exactly one entry for that
\* string, holding the predecessors of all those paths; no two entries of
\* the view have the same target string.
C17_OneEntryPerTargetString ==
    (pairs_call.done /\ ~pairs_call.failed) =>
        /\ \A x \in 1..Len(pairs_call.result) : \A y \in 1..Len(pairs_call.result) :
               pairs_call.result[x].target = pairs_call.result[y].target => x = y
        /\ \A k \in 1..Len(paths) : \E x \in 1..Len(pairs_call.result) :
               /\ pairs_call.result[x].target = format_column(Last(paths[k]))
               /\ format_column(Predecessor(paths[k]))
                      \in Range(pairs_call.result[x].sources)

\* C18: in every entry of the column-pairs view, sources is the set of the
\* immediate predecessors of the target: each of them once, also when
\* several paths ending at the target share their second-to-last node.
C18_SourcesIsASet ==
    (pairs_call.done /\ ~pairs_call.failed) =>
        \A x \in 1..Len(pairs_call.lineage_map) :
            /\ NoRepeats(pairs_call.lineage_map[x].sources)
            /\ Range(pairs_call.lineage_map[x].sources) =
                   {Predecessor(paths[k]) :
                        k \in {j \in 1..Len(paths) :
                                  Last(paths[j]) = pairs_call.lineage_map[x].target}}
            /\ \E y \in 1..Len(pairs_call.result) :
                   /\ pairs_call.result[y] = ColumnPair(pairs_call.lineage_map[x])
                   /\ Len(pairs_call.result[y].sources) =
                          Cardinality(Range(pairs_call.lineage_map[x].sources))

\* C19: for every path of two or more nodes the column-pairs view records
\* the second-to-last node as a source of the last node, and no earlier
\* node of the path; for a path of one node it records that node as source
\* and target.
C19_SecondToLastIsSource ==
    pairs_call.done =>
        /\ \A k \in Processed : \E x \in 1..Len(pairs_call.lineage_map) :
               /\ pairs_call.lineage_map[x].target = Last(paths[k])
               /\ Predecessor(paths[k]) \in Range(pairs_call.lineage_map[x].sources)
        /\ \A x \in 1..Len(pairs_call.lineage_map) :
               Range(pairs_call.lineage_map[x].sources) =
                   {Predecessor(paths[k]) :
                        k \in {j \in Processed :
                                  Last(paths[j]) = pairs_call.lineage_map[x].target}}
        /\ Len(pairs_call.result) = Len(pairs_call.lineage_map)
        /\ \A x \in 1..Len(pairs_call.lineage_map) :
               \E y \in 1..Len(pairs_call.result) :
                   pairs_call.result[y] = ColumnPair(pairs_call.lineage_map[x])

\* C19 witness: the view ran over a path of three nodes and a path of one
\* node and has an entry for each.
C19_Witness ==
    /\ pairs_call.done
    /\ \E j \in Processed : Len(paths[j]) = 3
    /\ \E j \in Processed : Len(paths[j]) = 1
    /\ Len(pairs_call.result) = 2

\* C20: a failure while the graph is walked for the column-pairs view or
\* for the full-paths view is caught in the view, appends a warning, and
\* leaves the view with an empty result: no entry of a path that came
\* before the failure remains.
C20_FailureEmptiesTheView ==
    /\ (pairs_call.done /\ pairs_call.failed) =>
           pairs_call.warnings # <<>> /\ pairs_call.result = <<>>
    /\ (paths_call.done /\ paths_call.failed) =>
           paths_call.warnings # <<>> /\ paths_call.result = <<>>


\* ------------------------------------------------- claims on the service
\* The call's own view met a failure: the parser failed in it, or its
\* extraction ended in an except clause.
OwnFailure(i) ==
    \/ calls[i].outcome # "ok"
    \/ Extract(calls[i].view, Runner(FALSE)).failed
    \/ Extract(calls[i].view, Runner(FALSE)).raises

\* C21: a failure in one view never aborts the others: every get_* call on
\* a service returns the result the same call returns on a service on which
\* nothing was called before, and no call raises, whatever the earlier
\* calls on the service met.
C21_FailureStaysInItsView ==
    \A j \in 1..Len(calls) :
        /\ ~calls[j].response.raised
        /\ calls[j].response.result =
               GetView(calls[j].view, NewService, sql,
                       calls[j].outcome).response.result

\* A view that failed, then another view on the same service that answers
\* with a result that is not empty.
C21_Witness ==
    \E i \in 1..Len(calls) : \E j \in 1..Len(calls) :
        /\ i < j
        /\ calls[i].view # calls[j].view
        /\ OwnFailure(i)
        /\ calls[j].before.warnings # <<>>
        /\ ~OwnFailure(j)
        /\ calls[j].response.result # EmptyResult(calls[j].view)

\* The parser failed in call i, when the runner was built or when the graph
\* was read from it.
ParserFailed(i) == calls[i].outcome # "ok"

HasMessage(warnings, message) ==
    \E x \in 1..Len(warnings) : warnings[x].message = message

\* C22: when the parser fails in a call, at construction or at parsing, the
\* response has the empty result, the parser's message among its warnings,
\* successful_statements = 0 and failed_statements = statement_count.
C22_ParserFailureIsTotalFailure ==
    \A i \in 1..Len(calls) :
        ParserFailed(i) =>
            /\ calls[i].response.result = EmptyResult(calls[i].view)
            /\ HasMessage(calls[i].response.warnings, ParserError)
            /\ calls[i].response.metadata.successful_statements = 0
            /\ calls[i].response.metadata.failed_statements =
                   calls[i].response.metadata.statement_count

\* C23: for every parser outcome (construction failure, failure when the
\* graph is read, malformed paths or tables) each get_* method returns a
\* response and never raises: the response carries the warnings of the
\* failure it met and the metadata of the SQL text.
C23_AlwaysAResponse ==
    \A i \in 1..Len(calls) :
        /\ ~calls[i].response.raised
        /\ OwnFailure(i) => calls[i].response.warnings # <<>>
        /\ calls[i].response.metadata.statement_count = StatementCount(sql)
        /\ calls[i].response.metadata.successful_statements
               + calls[i].response.metadata.failed_statements
               = StatementCount(sql)

\* An exception that left the extraction of a view (a malformed node met
\* after the inner try) and one raised by the parser's constructor, both
\* answered with a response.
C23_Witness ==
    /\ \E i \in 1..Len(calls) :
           /\ calls[i].outcome = "ok"
           /\ Extract(calls[i].view, Runner(FALSE)).raises
           /\ ~calls[i].response.raised
    /\ \E i \in 1..Len(calls) :
           /\ calls[i].outcome = "construction"
           /\ ~calls[i].response.raised

\* ------------------------------------- more claims on the projector
\* The orders in which the parser can enumerate the paths it found.
Reorderings(ps) ==
    { [x \in 1..Len(ps) |-> ps[f[x]]] :
        f \in {g \in [1..Len(ps) -> 1..Len(ps)] :
                  \A x \in 1..Len(ps) : \A y \in 1..Len(ps) :
                      g[x] = g[y] => x = y} }

\* C24: the column-pairs list does not depend on the order in which the
\* paths are enumerated: for well-formed paths, a run over the same paths
\* in any other order returns the same list, the order inside each sources
\* list included.
C24_OrderOfPathsDoesNotShow ==
    (pairs_call.done /\ ~pairs_call.failed) =>
        \A q \in Reorderings(paths) :
            _extract_column_pairs([Runner(FALSE) EXCEPT !.paths = q]).result
                = pairs_call.result

\* C25: the entries of the column-pairs list are ordered by their rendered
\* target: the targets are in non-decreasing string order.
C25_TargetsInStringOrder ==
    pairs_call.done =>
        \A x \in 1..Len(pairs_call.result) : \A y \in 1..Len(pairs_call.result) :
            x < y => Rank(pairs_call.result[x].target)
                         <= Rank(pairs_call.result[y].target)

\* Two targets put into lineage_map in the opposite of their string order.
C25_Witness ==
    /\ pairs_call.done
    /\ Len(pairs_call.lineage_map) = 2
    /\ Rank(format_column(pairs_call.lineage_map[1].target))
           > Rank(format_column(pairs_call.lineage_map[2].target))
    /\ Len(pairs_call.result) = 2

\* The column the one path of the rendering specification consists of.
TheColumn == paths[1][1]

\* The rule of rendering: the bare name without a parent; schema.table.column
\* under a table in a named schema, table.column under a table without
\* schema or in "<default>"; alias.column under a subquery; str(parent).column
\* under any other parent.
Rule(col) ==
    IF col.parent = NoParent THEN col.raw_name
    ELSE IF col.parent.kind = "table" /\ col.parent.schema \notin {"", "<default>"}
    THEN col.parent.schema \o "." \o col.parent.name \o "." \o col.raw_name
    ELSE col.parent.name \o "." \o col.raw_name

\* The strings that a rendering of the schema "<default>" would give.
RenderingsOfDefault ==
    {"<default>." \o col.parent.name \o "." \o col.raw_name :
        col \in RenderColumns}

\* C26: both views render a column by the one rule, and neither renders the
\* schema "<default>".
C26_OneRuleOfRendering ==
    /\ pairs_call.done =>
          /\ pairs_call.result[1].target = Rule(TheColumn)
          /\ pairs_call.result[1].sources = <<Rule(TheColumn)>>
          /\ pairs_call.result[1].target \notin RenderingsOfDefault
    /\ paths_call.done =>
          /\ paths_call.result[1] = <<Rule(TheColumn)>>
          /\ paths_call.result[1][1] \notin RenderingsOfDefault

\* A column of a table in the schema "<default>", rendered by both views.
C26_Witness ==
    /\ pairs_call.done /\ paths_call.done
    /\ TheColumn.parent.kind = "table"
    /\ TheColumn.parent.schema = "<default>"
    /\ pairs_call.result[1].target = paths_call.result[1][1]

\* C27: the full-paths view has one entry per path, in the order of the
\* parser, and each entry lists the rendered columns of its path in the
\* order and the length of the path.
C27_OneEntryPerPathInOrder ==
    paths_call.done =>
        /\ Len(paths_call.result) = Len(paths)
        /\ \A k \in 1..Len(paths) :
              /\ Len(paths_call.result[k]) = Len(paths[k])
              /\ \A y \in 1..Len(paths[k]) :
                    paths_call.result[k][y] = Rule(paths[k][y])

\* Two different paths, one of them of columns that render differently.
C27_Witness ==
    /\ paths_call.done
    /\ Len(paths) = 2
    /\ paths[1] # paths[2]
    /\ Len(paths[1]) >= 2
    /\ Rule(paths[1][1]) # Rule(paths[1][Len(paths[1])])
    /\ paths_call.result[1] # paths_call.result[2]

\* ------------------------------------------ claims on the table view
\* The pair the claim gives for a table: the schema absent exactly when the
\* table has none or is in "<default>".
PairOf(table) ==
    [schema |-> IF table.schema \in {"", "<default>"}
                THEN [present |-> FALSE, value |-> ""]
                ELSE [present |-> TRUE, value |-> table.schema],
     table |-> table.name]

\* The list renders the tables one by one, without "<default>" and without
\* a pair that appears twice.
RendersDistinct(list, tbls) ==
    /\ Len(list) = Len(tbls)
    /\ \A x \in 1..Len(list) :
          /\ list[x] = PairOf(tbls[x])
          /\ list[x].schema.value # "<default>"
    /\ \A x \in 1..Len(list) : \A y \in 1..Len(list) :
          list[x] = list[y] => x = y

\* C28: the table-lineage view renders the distinct source tables and the
\* distinct target tables as (optional schema, table) pairs, the schema
\* absent exactly when the table has none or is in "<default>"; no pair
\* carries "<default>" and none appears twice within its list.
C28_TablesAsPairs ==
    \A i \in 1..Len(calls) :
        (calls[i].view = "table_lineage" /\ calls[i].outcome = "ok") =>
            /\ RendersDistinct(calls[i].response.result.source_tables,
                               tables.source)
            /\ RendersDistinct(calls[i].response.result.target_tables,
                               tables.target)

\* Two source tables of one name, one in "<default>" and one in a named
\* schema, and a target table without schema, all rendered.
C28_Witness ==
    \E i \in 1..Len(calls) :
        /\ calls[i].outcome = "ok"
        /\ Len(calls[i].response.result.source_tables) = 2
        /\ tables.source[1].name = tables.source[2].name
        /\ tables.source[1].schema = "<default>"
        /\ Len(calls[i].response.result.target_tables) = 1
        /\ tables.target[1].schema = ""

\* ------------------------------------- more claims on the resolver
KeyOf(i) == cache_key(lookups[i].schema, lookups[i].table)

\* Lookups i and j of one locator were under way together: both went to
\* the catalog having found the same entry, or none, under their key.
Overlapping(i, j) ==
    /\ i # j
    /\ KeyOf(i) = KeyOf(j)
    /\ lookups[i].fetched /\ lookups[j].fetched
    /\ lookups[i].entry_before = lookups[j].entry_before

\* What lookup i returned is a column list the catalog gave to it: the
\* columns of its last answer, or nothing when no answer had columns.
ReturnedFromCatalog(i) ==
    /\ Len(lookups[i].got) \in 1..Len(fqn_patterns("s", "t"))
    /\ LET last == lookups[i].got[Len(lookups[i].got)]
       IN  lookups[i].result = IF Usable(last) THEN last.columns ELSE <<>>

\* Every lookup of the key has returned.
AllDone(key) ==
    \A x \in 1..Len(lookups) : KeyOf(x) = key => lookups[x].state = "done"

\* The lookups that wrote the key when no lookup has written it since.
LastWriters(key) ==
    {w \in 1..Len(lookups) :
        /\ KeyOf(w) = key /\ lookups[w].wrote
        /\ \A x \in 1..Len(lookups) :
              (KeyOf(x) = key /\ lookups[x].wrote) =>
                  lookups[x].finished <= lookups[w].finished}

\* C29: for any interleaving of two lookups of one locator that is not
\* cached or has expired, on a connected resolver: each returns a column
\* list the catalog gave to it after at most one fetch, each write leaves
\* under the key the entry of its own result, fresh at the time of the
\* write, and once all have returned the cache holds the entry of the one
\* that wrote last.
C29_RaceLeavesAValidEntry ==
    \A i \in 1..Len(lookups) : \A j \in 1..Len(lookups) :
        (Overlapping(i, j) /\ lookups[i].state = "done") =>
            /\ ReturnedFromCatalog(i)
            /\ lookups[i].wrote
            /\ lookups[i].entry_after =
                   [present |-> TRUE, columns |-> lookups[i].result,
                    timestamp |-> lookups[i].finished]
            /\ CacheValid(lookups[i].entry_after.timestamp, lookups[i].finished)
            /\ EntryOf(_cache, KeyOf(i)).present
            /\ AllDone(KeyOf(i)) =>
                  EntryOf(_cache, KeyOf(i))
                      \in {lookups[w].entry_after : w \in LastWriters(KeyOf(i))}

\* Two lookups of one locator that both found nothing cached, both fetched
\* and returned different column lists.
C29_Witness ==
    \E i \in 1..Len(lookups) : \E j \in 1..Len(lookups) :
        /\ Overlapping(i, j)
        /\ lookups[i].entry_before = NoEntry
        /\ lookups[i].state = "done" /\ lookups[j].state = "done"
        /\ lookups[i].result # lookups[j].result
        /\ lookups[i].result # <<>> /\ lookups[j].result # <<>>
        /\ lookups[i].finished < lookups[j].finished

\* A step that changes the cache and is no step of a lookup: clear_cache.
Cleared == _cache # <<>> /\ _cache' # _cache /\ lookups' = lookups

Admitted(ip) ==
    {x \in 1..Len(reqs) : NonExempt(x) /\ reqs[x].client_ip = ip /\ reqs[x].called}

\* C31: for every identity and every closed interval of length window_size,
\* at most requests_per_minute admitted requests of the identity have their
\* timestamp in the interval.  (An interval holding the most admissions can
\* be taken to begin at one of them.)
C31_SlidingWindowBound ==
    \A j \in 1..Len(reqs) :
        (NonExempt(j) /\ reqs[j].called) =>
            Cardinality({x \in Admitted(reqs[j].client_ip) :
                            /\ reqs[x].current_time >= reqs[j].current_time
                            /\ reqs[x].current_time
                                   <= reqs[j].current_time + window_size})
                <= requests_per_minute

\* An identity admitted up to its limit and denied exactly window_size
\* after its first admission, the closed interval being full.
C31_Witness ==
    \E j \in 1..Len(reqs) : \E k \in 1..Len(reqs) :
        /\ NonExempt(j) /\ NonExempt(k) /\ SameIdentity(j, k)
        /\ reqs[j].called /\ ~reqs[k].called
        /\ Gap(j, k) = window_size

\* C32: in every reachable state and at every current time, each record
\* holds only timestamps >= now - window_size.
C32_RecordsFreshAtAnyInstant ==
    \A ip \in DOMAIN request_timestamps :
        \A x \in 1..Len(request_timestamps[ip]) :
            request_timestamps[ip][x] >= now - window_size

\* C33: once a non-exempt request has completed, admitted or denied, under
\* any limit, no record of the map has an empty sequence.
C33_NoEmptyRecord ==
    (\E i \in 1..Len(reqs) :
        NonExempt(i) /\ reqs[i].state \in {"done", "denied"}) =>
        \A ip \in DOMAIN request_timestamps : request_timestamps[ip] # <<>>

NonDecreasing(s) == \A x \in 1..Len(s) : \A y \in 1..Len(s) : x < y => s[x] <= s[y]

\* C34: every record's sequence is non-decreasing in every reachable state,
\* and right after the prune step of a request no timestamp of its identity
\* is older than the request's time minus window_size.
C34_SortedSoPrefixTrimSuffices ==
    /\ \A ip \in DOMAIN request_timestamps : NonDecreasing(request_timestamps[ip])
    /\ \A i \in 1..Len(reqs) :
          NonExempt(i) =>
              \A x \in 1..Len(reqs[i].after) :
                  reqs[i].after[x] >= reqs[i].current_time - window_size

\* A request whose prune dropped the head of its identity's sequence and
\* kept a later timestamp.
C34_Witness ==
    \E i \in 1..Len(reqs) :
        /\ NonExempt(i)
        /\ Len(reqs[i].before) = 2
        /\ reqs[i].before[1] < reqs[i].current_time - window_size
        /\ reqs[i].before[2] >= reqs[i].current_time - window_size
        /\ reqs[i].after = <<reqs[i].before[2], reqs[i].current_time>>

\* The first comma-separated entry of the forwarding header of arrival i,
\* trimmed.
FirstForwarded(i) == Strip(SplitFirst(arrivals[i].forwarded.value))

\* Requests j and k are counted against one record: they have one key, and
\* when the earlier of them was admitted the later found its timestamp.
OneRecord(j, k) ==
    /\ reqs[j].client_ip = reqs[k].client_ip
    /\ (j < k /\ reqs[j].called) => reqs[k].before # <<>>

\* C35 as stated: a request with a forwarding header is keyed by the first
\* entry of the header and any other by its peer address, so requests with
\* the same first forwarded entry share a record whatever their peers, and
\* requests of one peer with different first entries do not.
C35_Original ==
    \A j \in 1..Len(arrivals) : \A k \in 1..Len(arrivals) :
        (arrivals[j].forwarded.present /\ arrivals[k].forwarded.present) =>
            IF FirstForwarded(j) = FirstForwarded(k)
            THEN OneRecord(j, k)
            ELSE reqs[j].client_ip # reqs[k].client_ip

HasForwarded(i) ==
    arrivals[i].forwarded.present /\ arrivals[i].forwarded.value # <<>>

\* C35: a request whose forwarding header is present and not empty is keyed
\* by the first entry of the header, trimmed; any other request is keyed by
\* its peer address, or by "unknown" without one.  Requests with the same
\* first forwarded entry share a record whatever their peers, and requests
\* with different first entries do not, whatever their peers.
C35_KeyedByFirstForwardedEntry ==
    /\ \A i \in 1..Len(arrivals) :
          reqs[i].client_ip =
              IF HasForwarded(i) THEN FirstForwarded(i)
              ELSE IF arrivals[i].client.present THEN arrivals[i].client.value
              ELSE Unknown
    /\ \A j \in 1..Len(arrivals) : \A k \in 1..Len(arrivals) :
          (HasForwarded(j) /\ HasForwarded(k)) =>
              IF FirstForwarded(j) = FirstForwarded(k)
              THEN OneRecord(j, k)
              ELSE reqs[j].client_ip # reqs[k].client_ip

\* Two admitted requests of different peers with the same first forwarded
\* entry, and a request of the first peer with another entry that found no
\* record.
C35_Witness ==
    \E j \in 1..Len(arrivals) : \E k \in 1..Len(arrivals) : \E n \in 1..Len(arrivals) :
        /\ j < k /\ k < n
        /\ HasForwarded(j) /\ HasForwarded(k) /\ HasForwarded(n)
        /\ arrivals[j].client # arrivals[k].client
        /\ FirstForwarded(j) = FirstForwarded(k)
        /\ reqs[k].before # <<>>
        /\ arrivals[n].client = arrivals[j].client
        /\ FirstForwarded(n) # FirstForwarded(j)
        /\ reqs[n].before = <<>>

C37_DegradedResolverIsReplaced ==
    (constructed /\ ~_connected) =>
        /\ metadata_provider \in {NoProvider, "DummyMetaDataProvider"}
        /\ lookups = <<>>

\* A resolver whose probe failed and a service built on it.
C37_Witness ==
    /\ constructed /\ ProbeFailed /\ ~_connected
    /\ metadata_provider = "DummyMetaDataProvider"

\* Lookup i read the entry of its key or assigned it.
Touches(i) == lookups[i].cache_read \/ lookups[i].wrote

\* C38: two lookups read or write the same cache entry only if they have
\* the same schema and the same table.
C38_DistinctLocatorsDistinctEntries ==
    \A i \in 1..Len(lookups) : \A j \in 1..Len(lookups) :
        (Touches(i) /\ Touches(j) /\ KeyOf(i) = KeyOf(j)) => SameLocator(i, j)

\* The retained sequences and the cutoffs the prune loop is run on here.
PruneTimes == {0, 1, window_size, window_size + 1}
PruneInputs == UNION {[1..n -> PruneTimes] : n \in 0..MaxLimit}

====
